---- MODULE Spec2Model ----
(***************************************************************************)
(* TerraLedger frontend: the EmissionTracker page                          *)
(* (src/frontend/src/pages/EmissionTracker.tsx).                           *)
(*                                                                         *)
(* The page is a React function component.  Its state is four useState     *)
(* strings bound to the "Household Activities" form; every state setter    *)
(* makes React run the component body again, which recomputes the          *)
(* component-local constants (monthlyEmissions, totalEmissions,            *)
(* yearlyEmissions) and evaluates every JSX expression.  The variable      *)
(* `view` holds the values of those JSX expressions after the last render. *)
(*                                                                         *)
(* Numbers.  The values the page computes are JavaScript doubles.  A       *)
(* quotient is carried here as numerator and denominator, and              *)
(* Number.prototype.toFixed is modelled on that exact quotient; its result *)
(* (a decimal string) is carried as the integer it spells when the decimal *)
(* point is dropped ("1.4" is 14, "0.7" is 7, "9" is 9).  None of the      *)
(* quotients the page forms lies on a rounding tie, so the exact quotient  *)
(* and the double round alike.                                             *)
(***************************************************************************)
EXTENDS Integers, Sequences, FiniteSets, TLC

VARIABLES cookingFuel, fuelAmount, generatorHours, wasteAmount, view

vars == <<cookingFuel, fuelAmount, generatorHours, wasteAmount, view>>

(* The Marketplace page (src/frontend/src/components/Navigation.tsx, from  *)
(* line 115): the useState filter, the text in the uncontrolled search     *)
(* <Input> (held by the DOM, not by React), and the values of the page's   *)
(* JSX expressions after its last render.  A string this page computes on  *)
(* is carried as the sequence of its characters.                           *)
VARIABLES selectedFilter, searchText, marketView

marketVars == <<selectedFilter, searchText, marketView>>

(* Invocations of the footprint computation (the component body, lines     *)
(* 18-26 of EmissionTracker.tsx), taken one step at a time: each has its   *)
(* position, the monthlyEmissions object it built, the accumulator of its  *)
(* reduce, and the values it ends with.                                    *)
VARIABLES callerPc, callerObject, callerAcc, callerResult

callerVars == <<callerPc, callerObject, callerAcc, callerResult>>

(* A run of a setup script: the project setup script (src/frontend/        *)
(* README.md, lines 131-368) or the backend setup script                   *)
(* (src/unnamed/part_001).  `tools` and `files` are the machine the script *)
(* runs on; the rest is the shell's progress through the script.           *)
VARIABLES script, tools, files, shellVars, pc, status, failed,
          stepsStarted, completeShown

setupVars == <<script, tools, files, shellVars, pc, status, failed,
               stepsStarted, completeShown>>

(* The breakdown section of the EmissionTracker (lines 180-190) taken as a *)
(* function of the footprint it is given: the footprint, and the rows the  *)
(* map callback returns for it.                                            *)
VARIABLES footprint, breakdownView

breakdownVars == <<footprint, breakdownView>>

(* The navigation bar (src/frontend/src/components/Navigation.tsx, lines   *)
(* 1-99): its useState flag, the router's location, the width class of the *)
(* window (the desktop links are "hidden md:flex", the menu button and the *)
(* mobile menu "md:hidden"), and what the bar renders.                     *)
VARIABLES isOpen, location, viewport, navView

navVars == <<isOpen, location, viewport, navView>>

(* The Dashboard page (src/frontend/src/pages/Dashboard.tsx): the tab the  *)
(* uncontrolled <Tabs> shows, and the values of the page's JSX             *)
(* expressions.  The component has no state of its own.                    *)
VARIABLES activeTab, dashboardView

dashVars == <<activeTab, dashboardView>>

(* What the actions of one part of the model leave unchanged.              *)
notTracker == <<marketVars, callerVars, setupVars, breakdownVars, navVars,
                dashVars>>

notMarket == <<vars, callerVars, setupVars, breakdownVars, navVars, dashVars>>

notCallers == <<vars, marketVars, setupVars, breakdownVars, navVars, dashVars>>

notSetup == <<vars, marketVars, callerVars, breakdownVars, navVars, dashVars>>

notBreakdown == <<vars, marketVars, callerVars, setupVars, navVars, dashVars>>

notNavigation == <<vars, marketVars, callerVars, setupVars, breakdownVars,
                   dashVars>>

notDashboard == <<vars, marketVars, callerVars, setupVars, breakdownVars,
                  navVars>>

---------------------------------------------------------------------------
(* Bounds of the model: the numbers a user types into an <Input            *)
(* type="number"> range over -MaxNegative .. MaxQuantity.                  *)
MaxQuantity == 5

MaxNegative == 1

(* The value of an <Input type="number">: the empty string, or the decimal *)
(* string of the number typed.  The input has no min attribute, so         *)
(* negative numbers are accepted.                                          *)
InputValues == {""} \cup {ToString(n) : n \in (0 - MaxNegative)..MaxQuantity}

(* The values of the five <SelectItem>s of the fuel <Select>.              *)
FuelOptions == {"charcoal", "firewood", "kerosene", "lpg", "electric"}

---------------------------------------------------------------------------
(* Array.prototype.reduce((a, b) => a + b, init), left to right.           *)
RECURSIVE reduceSum(_, _)
reduceSum(values, acc) ==
    IF values = <<>> THEN acc
    ELSE reduceSum(Tail(values), acc + Head(values))

(* Number.prototype.toFixed(digits) of the quotient num / den, den > 0:    *)
(* the integer n for which n / 10^digits is nearest the quotient, the      *)
(* larger n of two equally near; a negative number is formatted as "-"     *)
(* followed by the formatting of its magnitude.                            *)
toFixedMagnitude(num, den, digits) ==
    (2 * num * (10 ^ digits) + den) \div (2 * den)

(* A formatting that rounds every inexact quotient up.                     *)
toFixedCeiling(num, den, digits) ==
    (num * (10 ^ digits) + den - 1) \div den

toFixed(num, den, digits) ==
    IF num < 0 THEN 0 - toFixedMagnitude(0 - num, den, digits)
    ELSE toFixedMagnitude(num, den, digits)

---------------------------------------------------------------------------
(* The component-local constants, recomputed by every render.              *)
monthlyEmissions ==
    [cooking |-> 45, electricity |-> 32, transport |-> 28, waste |-> 15]

(* Object.values / Object.entries enumerate the keys in insertion order.   *)
categoryOrder == <<"cooking", "electricity", "transport", "waste">>

ObjectValues(obj) == [i \in 1..Len(categoryOrder) |-> obj[categoryOrder[i]]]

(* A reduction that stops one element short of the end of the array.       *)
totalEmissionsDropsLast ==
    reduceSum(SubSeq(ObjectValues(monthlyEmissions), 1,
                     Len(categoryOrder) - 1), 0)

totalEmissions == reduceSum(ObjectValues(monthlyEmissions), 0)

yearlyEmissions == totalEmissions * 12

(* {(yearlyEmissions / 1000).toFixed(1)} tons/year, in tenths of a ton.    *)
tonsPerYear == toFixed(yearlyEmissions, 1000, 1)

(* The credit count taken at 1000 kg per credit, as the cost estimate does. *)
offsetCreditsPerTon == toFixed(yearlyEmissions, 1000, 1)

(* {(yearlyEmissions / 2000).toFixed(1)} carbon credits, in tenths.        *)
offsetCredits == toFixed(yearlyEmissions, 2000, 1)

(* {((yearlyEmissions * 0.4) / 1000).toFixed(1)} tons/year, in tenths.     *)
remainingTons == toFixed(yearlyEmissions * 4, 10 * 1000, 1)

(* ${((yearlyEmissions * 0.4) / 1000 * 15).toFixed(0)}/year, in dollars.   *)
estimatedCost == toFixed(yearlyEmissions * 4 * 15, 10 * 1000, 0)

(* The value handed to a <Progress>: (part / whole) * 100 in JavaScript    *)
(* arithmetic.  A finite result is carried as the exact quotient           *)
(* num / den; 0 / 0 is NaN and a positive number over 0 is Infinity.       *)
progressValue(part, whole) ==
    IF whole # 0 THEN [kind |-> "number", num |-> part * 100, den |-> whole]
    ELSE IF part = 0 THEN [kind |-> "NaN"]
    ELSE [kind |-> "Infinity"]

(* Object.entries(monthlyEmissions).map(([category, amount]) => ...) with  *)
(* <Progress value={(amount / totalEmissions) * 100}>.                     *)
breakdown(emissions, total) ==
    [i \in 1..Len(categoryOrder) |->
        [ category |-> categoryOrder[i],
          amount   |-> emissions[categoryOrder[i]],
          progress |-> progressValue(emissions[categoryOrder[i]], total) ]]

(* Monthly Goal, 100 kg: <Progress value={(totalEmissions / 100) * 100}>.  *)
monthlyGoalProgress == progressValue(totalEmissions, 100)

(* Annual Target, 1.0t: {((yearlyEmissions / 1000) / 1.0 * 100)            *)
(* .toFixed(0)}% and <Progress value={((yearlyEmissions / 1000) / 1.0)     *)
(* * 100}>.                                                                *)
annualTargetPercent == toFixed(yearlyEmissions * 100, 1000, 0)

annualTargetProgress == progressValue(yearlyEmissions, 1000)

(* The recommendations array; savings: "18 kg CO2/month" is carried as the *)
(* number of kilograms the text names.                                     *)
recommendations ==
    << [activity |-> "Switch to LPG for cooking", savings |-> 18,
        difficulty |-> "Medium"],
       [activity |-> "Use solar lights instead of generator", savings |-> 19,
        difficulty |-> "Easy"],
       [activity |-> "Composting organic waste", savings |-> 10,
        difficulty |-> "Easy"],
       [activity |-> "Use public transport 2x/week", savings |-> 8,
        difficulty |-> "Easy"] >>

(* One run of the component body: the values of the JSX expressions.       *)
Render(fuel, amount, hours, waste) ==
    [ form            |-> [cookingFuel |-> fuel, fuelAmount |-> amount,
                           generatorHours |-> hours, wasteAmount |-> waste],
      monthlyEmissions |-> monthlyEmissions,
      totalEmissions  |-> totalEmissions,
      tonsPerYear     |-> tonsPerYear,
      breakdown       |-> breakdown(monthlyEmissions, totalEmissions),
      offsetCredits   |-> offsetCredits,
      monthlyGoal     |-> monthlyGoalProgress,
      annualTarget    |-> [percent  |-> annualTargetPercent,
                           progress |-> annualTargetProgress],
      recommendations |-> recommendations,
      remainingTons   |-> remainingTons,
      estimatedCost   |-> estimatedCost ]

---------------------------------------------------------------------------
(* The Marketplace page.                                                   *)

(* The longest text typed into the search box.                             *)
MaxSearchLen == 3

(* The characters typed into the search box.                               *)
SearchAlphabet == {"K", "e", "n"}

(* String.prototype.toLowerCase, character by character.                   *)
lowerCaseChar(c) ==
    CASE c = "A" -> "a" [] c = "B" -> "b" [] c = "C" -> "c" [] c = "D" -> "d"
      [] c = "E" -> "e" [] c = "F" -> "f" [] c = "G" -> "g" [] c = "H" -> "h"
      [] c = "I" -> "i" [] c = "J" -> "j" [] c = "K" -> "k" [] c = "L" -> "l"
      [] c = "M" -> "m" [] c = "N" -> "n" [] c = "O" -> "o" [] c = "P" -> "p"
      [] c = "Q" -> "q" [] c = "R" -> "r" [] c = "S" -> "s" [] c = "T" -> "t"
      [] c = "U" -> "u" [] c = "V" -> "v" [] c = "W" -> "w" [] c = "X" -> "x"
      [] c = "Y" -> "y" [] c = "Z" -> "z" [] OTHER -> c

toLowerCase(str) == [i \in 1..Len(str) |-> lowerCaseChar(str[i])]

(* String.prototype.includes: search occurs in str at some position.       *)
includes(str, search) ==
    \E start \in 0..(Len(str) - Len(search)) :
        SubSeq(str, start + 1, start + Len(search)) = search

(* The values of the four <TabsTrigger>s.                                  *)
filterAll ==
    <<"a", "l", "l">>

filterAgroforestry ==
    <<"a", "g", "r", "o", "f", "o", "r", "e", "s", "t", "r", "y">>

filterReforestation ==
    <<"r", "e", "f", "o", "r", "e", "s", "t", "a", "t", "i", "o", "n">>

filterCoastal ==
    <<"c", "o", "a", "s", "t", "a", "l">>

FilterTabs == {filterAll, filterAgroforestry, filterReforestation, filterCoastal}

(* The strings of the catalogue.                                           *)
typeAgroforestry ==
    <<"A", "g", "r", "o", "f", "o", "r", "e", "s", "t", "r", "y">>

typeCoastalRestoration ==
    <<"C", "o", "a", "s", "t", "a", "l", " ", "R", "e", "s", "t", "o", "r",
      "a", "t", "i", "o", "n">>

typeReforestation ==
    <<"R", "e", "f", "o", "r", "e", "s", "t", "a", "t", "i", "o", "n">>

nameKenyan ==
    <<"K", "e", "n", "y", "a", "n", " ", "A", "g", "r", "o", "f", "o", "r",
      "e", "s", "t", "r", "y", " ", "P", "r", "o", "j", "e", "c", "t">>

locationKenyan ==
    <<"N", "a", "k", "u", "r", "u", " ", "C", "o", "u", "n", "t", "y", ",",
      " ", "K", "e", "n", "y", "a">>

nameNigerian ==
    <<"N", "i", "g", "e", "r", "i", "a", "n", " ", "M", "a", "n", "g", "r",
      "o", "v", "e", " ", "R", "e", "s", "t", "o", "r", "a", "t", "i", "o",
      "n">>

locationNigerian ==
    <<"N", "i", "g", "e", "r", " ", "D", "e", "l", "t", "a", ",", " ", "N",
      "i", "g", "e", "r", "i", "a">>

nameEthiopian ==
    <<"E", "t", "h", "i", "o", "p", "i", "a", "n", " ", "H", "i", "g", "h",
      "l", "a", "n", "d", " ", "R", "e", "f", "o", "r", "e", "s", "t", "a",
      "t", "i", "o", "n">>

locationEthiopian ==
    <<"A", "m", "h", "a", "r", "a", " ", "R", "e", "g", "i", "o", "n", ",",
      " ", "E", "t", "h", "i", "o", "p", "i", "a">>

nameGhanaian ==
    <<"G", "h", "a", "n", "a", "i", "a", "n", " ", "C", "o", "c", "o", "a",
      " ", "A", "g", "r", "o", "f", "o", "r", "e", "s", "t", "r", "y">>

locationGhanaian ==
    <<"A", "s", "h", "a", "n", "t", "i", " ", "R", "e", "g", "i", "o", "n",
      ",", " ", "G", "h", "a", "n", "a">>

(* The catalogue, in array order.  A price is in cents (12.50 is 1250), a  *)
(* rating in tenths (4.9 is 49).                                           *)
carbonCredits ==
    << [id |-> 1, name |-> nameKenyan, location |-> locationKenyan,
        type |-> typeAgroforestry, price |-> 1250, totalCredits |-> 1000,
        availableCredits |-> 750, sequestrationRate |-> 85, rating |-> 49],
       [id |-> 2, name |-> nameNigerian, location |-> locationNigerian,
        type |-> typeCoastalRestoration, price |-> 1875, totalCredits |-> 500,
        availableCredits |-> 320, sequestrationRate |-> 92, rating |-> 48],
       [id |-> 3, name |-> nameEthiopian, location |-> locationEthiopian,
        type |-> typeReforestation, price |-> 1530, totalCredits |-> 2000,
        availableCredits |-> 1650, sequestrationRate |-> 78, rating |-> 47],
       [id |-> 4, name |-> nameGhanaian, location |-> locationGhanaian,
        type |-> typeAgroforestry, price |-> 1420, totalCredits |-> 800,
        availableCredits |-> 480, sequestrationRate |-> 89, rating |-> 49] >>

(* The test comparing the type as written, without toLowerCase.            *)
typeMatchesCaseSensitive(credit, filter) == includes(credit.type, filter)

(* The test with receiver and argument of includes exchanged.              *)
typeMatchesReversed(credit, filter) ==
    includes(toLowerCase(filter), toLowerCase(credit.type))

(* credit => credit.type.toLowerCase().includes(selectedFilter.toLowerCase()) *)
typeMatches(credit, filter) ==
    includes(toLowerCase(credit.type), toLowerCase(filter))

(* Array.prototype.filter with that test: the elements that pass, in array *)
(* order.                                                                  *)
RECURSIVE arrayFilter(_, _)
arrayFilter(array, filter) ==
    IF array = <<>> THEN <<>>
    ELSE IF typeMatches(Head(array), filter)
         THEN <<Head(array)>> \o arrayFilter(Tail(array), filter)
         ELSE arrayFilter(Tail(array), filter)

filteredCredits(filter) ==
    IF filter = filterAll THEN carbonCredits
    ELSE arrayFilter(carbonCredits, filter)

(* filteredCredits.reduce((acc, credit) => acc + credit.availableCredits, 0) *)
RECURSIVE reduceAvailable(_, _)
reduceAvailable(credits, acc) ==
    IF credits = <<>> THEN acc
    ELSE reduceAvailable(Tail(credits), acc + Head(credits).availableCredits)

(* filteredCredits.reduce((acc, credit) =>                                 *)
(*     acc + (credit.price * credit.availableCredits), 0), in cents.       *)
RECURSIVE reduceValue(_, _)
reduceValue(credits, acc) ==
    IF credits = <<>> THEN acc
    ELSE reduceValue(Tail(credits),
                     acc + Head(credits).price * Head(credits).availableCredits)

(* The "Credits Available" statistic summed over the whole catalogue.      *)
creditsAvailableOfCatalogue(filter) == reduceAvailable(carbonCredits, 0)

creditsAvailable(filter) == reduceAvailable(filteredCredits(filter), 0)

totalValue(filter) == reduceValue(filteredCredits(filter), 0)

(* The "Avg. Rating" statistic is the literal 4.8, in tenths.              *)
avgRating == 48

(* One run of the Marketplace body: the values of its JSX expressions.     *)
(* The search <Input> has neither value nor onChange: the body does not    *)
(* read the text typed into it.                                            *)
MarketRender(filter) ==
    [ tab              |-> filter,
      cards            |-> filteredCredits(filter),
      activeProjects   |-> Len(filteredCredits(filter)),
      creditsAvailable |-> creditsAvailable(filter),
      totalValue       |-> totalValue(filter),
      avgRating        |-> avgRating ]

MarketInit ==
    /\ selectedFilter = filterAll
    /\ searchText = <<>>
    /\ marketView = MarketRender(filterAll)

(* <Tabs value={selectedFilter} onValueChange={setSelectedFilter}>         *)
setSelectedFilter ==
    \E v \in FilterTabs :
        /\ selectedFilter' = v
        /\ marketView' = MarketRender(v)
        /\ UNCHANGED searchText
        /\ UNCHANGED notMarket

(* A character typed into the search <Input>: the DOM keeps the text; no   *)
(* handler runs and the page is not rendered again.                        *)
typeSearch ==
    \E c \in SearchAlphabet :
        /\ Len(searchText) < MaxSearchLen
        /\ searchText' = Append(searchText, c)
        /\ UNCHANGED <<selectedFilter, marketView>>
        /\ UNCHANGED notMarket

(* The last character of the search text deleted.                          *)
eraseSearch ==
    /\ searchText # <<>>
    /\ searchText' = SubSeq(searchText, 1, Len(searchText) - 1)
    /\ UNCHANGED <<selectedFilter, marketView>>
    /\ UNCHANGED notMarket

MarketNext ==
    \/ setSelectedFilter
    \/ typeSearch
    \/ eraseSearch

---------------------------------------------------------------------------
(* The footprint computation, step by step, for several invocations.       *)

(* The number of invocations in progress at once.                          *)
MaxCallers == 3

Callers == 1..MaxCallers

(* Positions of an invocation: 0 not started; i in 1..4 the object is      *)
(* built and element i of Object.values is the next to fold; 5 the reduce  *)
(* is finished; 6 totalEmissions and yearlyEmissions are assigned.         *)
CallersInit ==
    /\ callerPc = [c \in Callers |-> 0]
    /\ callerObject = [c \in Callers |-> [cooking |-> 0, electricity |-> 0,
                                          transport |-> 0, waste |-> 0]]
    /\ callerAcc = [c \in Callers |-> 0]
    /\ callerResult = [c \in Callers |->
                          [totalEmissions |-> 0, yearlyEmissions |-> 0]]

(* const monthlyEmissions = {...}: the invocation builds its own object;   *)
(* reduce starts from the initial value 0.                                 *)
callBegin(c) ==
    /\ callerPc[c] = 0
    /\ callerObject' = [callerObject EXCEPT ![c] = monthlyEmissions]
    /\ callerAcc' = [callerAcc EXCEPT ![c] = 0]
    /\ callerPc' = [callerPc EXCEPT ![c] = 1]
    /\ UNCHANGED callerResult
    /\ UNCHANGED notCallers

(* A fold into one accumulator that every invocation shares.               *)
callReduceStepShared(c) ==
    /\ callerPc[c] \in 1..Len(categoryOrder)
    /\ callerAcc' = [callerAcc EXCEPT
                       ![1] = @ + ObjectValues(callerObject[c])[callerPc[c]]]
    /\ callerPc' = [callerPc EXCEPT ![c] = @ + 1]
    /\ UNCHANGED <<callerObject, callerResult>>
    /\ UNCHANGED notCallers

(* One call of the reduce callback (a, b) => a + b.                        *)
callReduceStep(c) ==
    /\ callerPc[c] \in 1..Len(categoryOrder)
    /\ callerAcc' = [callerAcc EXCEPT
                       ![c] = @ + ObjectValues(callerObject[c])[callerPc[c]]]
    /\ callerPc' = [callerPc EXCEPT ![c] = @ + 1]
    /\ UNCHANGED <<callerObject, callerResult>>
    /\ UNCHANGED notCallers

(* const totalEmissions = <the reduce>; const yearlyEmissions =            *)
(* totalEmissions * 12.                                                    *)
callProject(c) ==
    /\ callerPc[c] = Len(categoryOrder) + 1
    /\ callerResult' = [callerResult EXCEPT
                          ![c] = [totalEmissions |-> callerAcc[c],
                                  yearlyEmissions |-> callerAcc[c] * 12]]
    /\ callerPc' = [callerPc EXCEPT ![c] = @ + 1]
    /\ UNCHANGED <<callerObject, callerAcc>>
    /\ UNCHANGED notCallers

CallersNext ==
    \E c \in Callers :
        \/ callBegin(c)
        \/ callReduceStep(c)
        \/ callProject(c)

---------------------------------------------------------------------------
(* The setup scripts.                                                      *)

(* The machine's Node.js major version ranges over RequiredNodeMajor -     *)
(* MaxVersionSpread .. RequiredNodeMajor + MaxVersionSpread, its Python 3  *)
(* minor version over DocumentedPythonMinor - MaxVersionSpread ..          *)
(* DocumentedPythonMinor + MaxVersionSpread.                               *)
MaxVersionSpread == 1

(* [ "$NODE_VERSION" -lt 18 ]                                              *)
RequiredNodeMajor == 18

(* "Please install Python 3.9+": the minor version the messages name.      *)
DocumentedPythonMinor == 9

Machines ==
    [ node : BOOLEAN,
      nodeMajor : (RequiredNodeMajor - MaxVersionSpread)
                      ..(RequiredNodeMajor + MaxVersionSpread),
      python3 : BOOLEAN,
      pythonMinor : (DocumentedPythonMinor - MaxVersionSpread)
                        ..(DocumentedPythonMinor + MaxVersionSpread),
      pip3 : BOOLEAN,
      git : BOOLEAN ]

(* backend/.env and backend/.env.example: present or not.                  *)
FileSystems == [env : BOOLEAN, example : BOOLEAN]

Command(step, kind, name) == [step |-> step, kind |-> kind, name |-> name]

(* The commands of the project setup script in the order main runs them.   *)
(* print_status, print_header and echo lines are left out, but for the     *)
(* "Setup Complete!" header.  Kinds: "require" is an  if ! command -v X    *)
(* ... exit 1  block; "external" is a command whose success the script     *)
(* does not control.                                                       *)
ProjectScript ==
    << Command("check_prerequisites", "require", "node"),
       Command("check_prerequisites", "nodeVersion", "NODE_VERSION"),
       Command("check_prerequisites", "require", "python3"),
       Command("check_prerequisites", "assign", "PYTHON_VERSION"),
       Command("check_prerequisites", "require", "pip3"),
       Command("check_prerequisites", "require", "git"),
       Command("setup_project_root", "external", "npm install"),
       Command("setup_backend", "external", "cd backend"),
       Command("setup_backend", "external", "python3 -m venv venv"),
       Command("setup_backend", "external", "source venv/bin/activate"),
       Command("setup_backend", "external", "pip install --upgrade pip"),
       Command("setup_backend", "external", "pip install -e ."),
       Command("setup_backend", "createEnv", "cp .env .env.example"),
       Command("setup_backend", "external", "pytest --tb=short"),
       Command("setup_backend", "external", "cd .."),
       Command("setup_frontend", "external", "cd frontend"),
       Command("setup_frontend", "external", "npm install"),
       Command("setup_frontend", "external", "npm run lint"),
       Command("setup_frontend", "external", "npm run build"),
       Command("setup_frontend", "external", "cd .."),
       Command("create_dev_scripts", "external", "cat > start-dev.sh"),
       Command("create_dev_scripts", "external", "chmod +x start-dev.sh"),
       Command("create_dev_scripts", "external", "cat > start-backend.sh"),
       Command("create_dev_scripts", "external", "chmod +x start-backend.sh"),
       Command("create_dev_scripts", "external", "cat > start-frontend.sh"),
       Command("create_dev_scripts", "external", "chmod +x start-frontend.sh"),
       Command("show_final_instructions", "complete", "Setup Complete!") >>

(* The commands of the backend setup script.                               *)
BackendScript ==
    << Command("backend_setup", "external", "source venv/bin/activate"),
       Command("backend_setup", "external", "pip install -e ."),
       Command("backend_setup", "createEnv", "cp .env .env.example"),
       Command("backend_setup", "complete", "Setup complete!") >>

Scripts == {"project", "backend"}

Commands(s) == IF s = "project" THEN ProjectScript ELSE BackendScript

(* A script that never stops at a failing command.                         *)
errexitOff(s) == FALSE

(* set -e: the project setup script has it, the backend script has not.    *)
errexit(s) == s = "project"

(* No script has been started.                                             *)
SetupInit ==
    /\ script = "none"
    /\ tools = [node |-> TRUE, nodeMajor |-> RequiredNodeMajor,
                python3 |-> TRUE, pythonMinor |-> DocumentedPythonMinor,
                pip3 |-> TRUE, git |-> TRUE]
    /\ files = [env |-> FALSE, example |-> TRUE]
    /\ shellVars = [NODE_VERSION |-> 0, PYTHON_VERSION |-> 0]
    /\ pc = 0
    /\ status = "idle"
    /\ failed = {}
    /\ stepsStarted = <<>>
    /\ completeShown = FALSE

(* The command the shell is at.                                            *)
current == Commands(script)[pc]

AtCommand(kind) ==
    /\ status = "running"
    /\ pc \in 1..Len(Commands(script))
    /\ current.kind = kind

(* The step of the command at pc has begun, if it had not.                 *)
StepBegins ==
    stepsStarted' =
        IF \E i \in 1..Len(stepsStarted) : stepsStarted[i] = current.step
        THEN stepsStarted
        ELSE Append(stepsStarted, current.step)

(* The command at pc succeeded: the shell goes on to the next one.         *)
GoOn ==
    /\ pc' = pc + 1
    /\ status' = "running"
    /\ failed' = failed

(* exit 1: the shell stops at the command at pc.                           *)
Exit ==
    /\ pc' = pc
    /\ status' = "exited"
    /\ failed' = failed \cup {pc}

(* The command at pc failed: under set -e the shell exits, otherwise it    *)
(* goes on to the next command.                                            *)
Fail ==
    /\ failed' = failed \cup {pc}
    /\ IF errexit(script)
       THEN pc' = pc /\ status' = "exited"
       ELSE pc' = pc + 1 /\ status' = "running"

(* A script is launched on some machine.                                   *)
launch ==
    /\ status = "idle"
    /\ \E s \in Scripts, machine \in Machines, fs \in FileSystems :
          /\ script' = s
          /\ tools' = machine
          /\ files' = fs
    /\ pc' = 1
    /\ status' = "running"
    /\ UNCHANGED <<shellVars, failed, stepsStarted, completeShown>>
    /\ UNCHANGED notSetup

(* if ! command -v X &> /dev/null; then print_error ...; exit 1; fi        *)
requireCommand ==
    /\ AtCommand("require")
    /\ StepBegins
    /\ IF tools[current.name] THEN GoOn ELSE Exit
    /\ UNCHANGED <<script, tools, files, shellVars, completeShown>>
    /\ UNCHANGED notSetup

(* NODE_VERSION=$(node --version | cut -d'v' -f2 | cut -d'.' -f1)          *)
(* if [ "$NODE_VERSION" -lt 18 ]; then print_error ...; exit 1; fi         *)
(* The status of the assignment is that of the last command of the         *)
(* pipeline (cut), and the comparison is the condition of an if: neither   *)
(* trips set -e.  A node that is installed prints its version.             *)
checkNodeVersion ==
    /\ AtCommand("nodeVersion")
    /\ StepBegins
    /\ shellVars' = [shellVars EXCEPT !.NODE_VERSION = tools.nodeMajor]
    /\ IF tools.nodeMajor < RequiredNodeMajor THEN Exit ELSE GoOn
    /\ UNCHANGED <<script, tools, files, completeShown>>
    /\ UNCHANGED notSetup

(* PYTHON_VERSION=$(python3 --version | cut -d' ' -f2 | cut -d'.' -f1-2):  *)
(* the version is stored and not compared with anything.                   *)
assignPythonVersion ==
    /\ AtCommand("assign")
    /\ StepBegins
    /\ shellVars' = [shellVars EXCEPT !.PYTHON_VERSION = tools.pythonMinor]
    /\ GoOn
    /\ UNCHANGED <<script, tools, files, completeShown>>
    /\ UNCHANGED notSetup

(* A command that may succeed or fail.                                     *)
runExternal ==
    /\ AtCommand("external")
    /\ StepBegins
    /\ \E ok \in BOOLEAN : IF ok THEN GoOn ELSE Fail
    /\ UNCHANGED <<script, tools, files, shellVars, completeShown>>
    /\ UNCHANGED notSetup

(* if [ ! -f .env ]; then ... cp .env .env.example ... fi                  *)
(* The cp is reached only when .env is absent, and then it fails for want  *)
(* of its source file and creates nothing.                                 *)
createEnvFile ==
    /\ AtCommand("createEnv")
    /\ StepBegins
    /\ IF files.env THEN GoOn ELSE Fail
    /\ UNCHANGED <<script, tools, files, shellVars, completeShown>>
    /\ UNCHANGED notSetup

(* print_header "Setup Complete!" / echo "Setup complete! ..."             *)
showComplete ==
    /\ AtCommand("complete")
    /\ StepBegins
    /\ completeShown' = TRUE
    /\ pc' = pc + 1
    /\ status' = "finished"
    /\ UNCHANGED <<script, tools, files, shellVars, failed>>
    /\ UNCHANGED notSetup

SetupNext ==
    \/ launch
    \/ requireCommand
    \/ checkNodeVersion
    \/ assignPythonVersion
    \/ runExternal
    \/ createEnvFile
    \/ showComplete

---------------------------------------------------------------------------
(* The emission breakdown as a function of the footprint.                  *)

(* The largest subtotal of a footprint handed to the breakdown.            *)
MaxSubtotal == 3

Footprints ==
    [{categoryOrder[i] : i \in 1..Len(categoryOrder)} -> 0..MaxSubtotal]

BreakdownInit ==
    /\ footprint = monthlyEmissions
    /\ breakdownView = breakdown(monthlyEmissions, totalEmissions)

(* The rows of the breakdown for a footprint: its total is the reduce of   *)
(* line 25, its rows the map of lines 181-189.                             *)
renderBreakdown ==
    \E f \in Footprints :
        /\ footprint' = f
        /\ breakdownView' = breakdown(f, reduceSum(ObjectValues(f), 0))
        /\ UNCHANGED notBreakdown

BreakdownNext == renderBreakdown

---------------------------------------------------------------------------
(* The navigation bar.                                                     *)

(* The number of pathnames the router holds that belong to no nav item.    *)
MaxOtherPaths == 3

navItems ==
    << [path |-> "/",            label |-> "Home"],
       [path |-> "/marketplace", label |-> "Marketplace"],
       [path |-> "/dashboard",   label |-> "Dashboard"],
       [path |-> "/tracker",     label |-> "Emission Tracker"],
       [path |-> "/regulator",   label |-> "Map View"],
       [path |-> "/education",   label |-> "Learn"] >>

ItemPaths == {navItems[i].path : i \in 1..Len(navItems)}

(* Pathnames below an item's path, which are no item's path.               *)
OtherPaths == {"/marketplace/" \o ToString(n) : n \in 1..MaxOtherPaths}

Pathnames == ItemPaths \cup OtherPaths

Viewports == {"mobile", "desktop"}

(* The test as location.pathname.startsWith(path) would make it.           *)
isActiveStartsWith(loc, path) ==
    \/ loc.pathname = path
    \/ path = "/"
    \/ path = "/marketplace" /\ loc.pathname \in OtherPaths

(* const isActive = (path) => location.pathname === path; the location the *)
(* closure reads is passed in.                                             *)
isActive(loc, path) == loc.pathname = path

(* One run of the component body: the menu button's icon, the desktop      *)
(* links with their Button variant, and the mobile links (rendered only    *)
(* when isOpen) with their highlight.                                      *)
NavRender(open, loc) ==
    [ menuIcon |-> IF open THEN "X" ELSE "Menu",
      desktop  |-> [i \in 1..Len(navItems) |->
                       [ path    |-> navItems[i].path,
                         label   |-> navItems[i].label,
                         variant |-> IF isActive(loc, navItems[i].path)
                                     THEN "default" ELSE "ghost" ]],
      mobile   |-> IF open
                   THEN [i \in 1..Len(navItems) |->
                            [ path   |-> navItems[i].path,
                              label  |-> navItems[i].label,
                              active |-> isActive(loc, navItems[i].path) ]]
                   ELSE << >> ]

NavInit ==
    /\ isOpen = FALSE
    /\ location = [pathname |-> "/"]
    /\ viewport = "desktop"
    /\ navView = NavRender(FALSE, [pathname |-> "/"])

(* The menu button (shown below the md width): onClick={() =>              *)
(* setIsOpen(!isOpen)}.                                                    *)
toggleMenu ==
    /\ viewport = "mobile"
    /\ isOpen' = ~isOpen
    /\ navView' = NavRender(isOpen', location)
    /\ UNCHANGED <<location, viewport>>
    /\ UNCHANGED notNavigation

(* A mobile link whose onClick is missing: the router navigates and the    *)
(* menu stays as it is.                                                    *)
mobileLinkClickKeepsOpen ==
    /\ viewport = "mobile"
    /\ isOpen
    /\ \E i \in 1..Len(navItems) :
           location' = [pathname |-> navItems[i].path]
    /\ navView' = NavRender(isOpen, location')
    /\ UNCHANGED <<isOpen, viewport>>
    /\ UNCHANGED notNavigation

(* A link of the open mobile menu: <Link to={item.path} onClick={() =>     *)
(* setIsOpen(false)}>.                                                     *)
mobileLinkClick ==
    /\ viewport = "mobile"
    /\ isOpen
    /\ \E i \in 1..Len(navItems) :
           location' = [pathname |-> navItems[i].path]
    /\ isOpen' = FALSE
    /\ navView' = NavRender(isOpen', location')
    /\ UNCHANGED viewport
    /\ UNCHANGED notNavigation

(* A desktop link (shown from the md width on): <Link to={item.path}>.     *)
desktopLinkClick ==
    /\ viewport = "desktop"
    /\ \E i \in 1..Len(navItems) :
           location' = [pathname |-> navItems[i].path]
    /\ navView' = NavRender(isOpen, location')
    /\ UNCHANGED <<isOpen, viewport>>
    /\ UNCHANGED notNavigation

(* The logo: <Link to="/">.                                                *)
logoClick ==
    /\ location' = [pathname |-> "/"]
    /\ navView' = NavRender(isOpen, location')
    /\ UNCHANGED <<isOpen, viewport>>
    /\ UNCHANGED notNavigation

(* A route change that does not come from the bar (history, address bar,   *)
(* a link in a page): useLocation() returns the new location.              *)
routeChange ==
    /\ \E p \in Pathnames : location' = [pathname |-> p]
    /\ navView' = NavRender(isOpen, location')
    /\ UNCHANGED <<isOpen, viewport>>
    /\ UNCHANGED notNavigation

(* The window crosses the md width; the component does not render again.   *)
resize ==
    /\ viewport' \in Viewports \ {viewport}
    /\ UNCHANGED <<isOpen, location, navView>>
    /\ UNCHANGED notNavigation

---------------------------------------------------------------------------
(* The Dashboard page.  Credits are carried in tenths of a credit          *)
(* (12.5 is 125), dollar values in cents, offsets in kilograms.            *)

userStats ==
    [ totalCredits   |-> 475,
      totalOffset    |-> 95000,
      activeProjects |-> 8,
      retiredCredits |-> 232 ]

(* The holdings with the first offset entered at 1000 kg per credit.       *)
ownedCreditsOffsetPerTon ==
    << [id |-> 1, project |-> "Kenyan Agroforestry Project", credits |-> 125,
        status |-> "Active", currentValue |-> 15625, offset |-> 12500],
       [id |-> 2, project |-> "Nigerian Mangrove Restoration", credits |-> 83,
        status |-> "Active", currentValue |-> 15563, offset |-> 16600],
       [id |-> 3, project |-> "Ethiopian Highland Reforestation",
        credits |-> 152, status |-> "Active", currentValue |-> 23256,
        offset |-> 30400],
       [id |-> 4, project |-> "Ghanaian Cocoa Agroforestry", credits |-> 115,
        status |-> "Retired", currentValue |-> 16330, offset |-> 23000] >>

ownedCredits ==
    << [id |-> 1, project |-> "Kenyan Agroforestry Project", credits |-> 125,
        status |-> "Active", currentValue |-> 15625, offset |-> 25000],
       [id |-> 2, project |-> "Nigerian Mangrove Restoration", credits |-> 83,
        status |-> "Active", currentValue |-> 15563, offset |-> 16600],
       [id |-> 3, project |-> "Ethiopian Highland Reforestation",
        credits |-> 152, status |-> "Active", currentValue |-> 23256,
        offset |-> 30400],
       [id |-> 4, project |-> "Ghanaian Cocoa Agroforestry", credits |-> 115,
        status |-> "Retired", currentValue |-> 16330, offset |-> 23000] >>

(* <TabsTrigger value="credits" | "impact" | "achievements">.              *)
DashboardTabs == {"credits", "impact", "achievements"}

(* A card that offers Retire whatever the status is.                       *)
retireOfferedAlways(credit) == TRUE

(* {credit.status === "Active" && (<Button>Retire</Button>)}               *)
retireOffered(credit) == credit.status = "Active"

(* One card of ownedCredits.map: the badge, the three figures and the      *)
(* buttons.                                                                *)
creditCard(credit) ==
    [ id           |-> credit.id,
      project      |-> credit.project,
      status       |-> credit.status,
      badge        |-> IF credit.status = "Active" THEN "default"
                       ELSE "secondary",
      credits      |-> credit.credits,
      currentValue |-> credit.currentValue,
      offsetTons   |-> toFixed(credit.offset, 1000, 1),
      buttons      |-> IF retireOffered(credit) THEN {"Certificate", "Retire"}
                       ELSE {"Certificate"} ]

(* One run of the component body: the four statistics, and the cards of    *)
(* the "credits" tab when that tab is the one shown.                       *)
DashboardRender(tab) ==
    [ totalCredits    |-> userStats.totalCredits,
      totalOffsetTons |-> toFixed(userStats.totalOffset, 1000, 1),
      activeProjects  |-> userStats.activeProjects,
      retiredCredits  |-> userStats.retiredCredits,
      tab             |-> tab,
      cards           |-> IF tab = "credits"
                          THEN [i \in 1..Len(ownedCredits) |->
                                   creditCard(ownedCredits[i])]
                          ELSE << >> ]

DashboardInit ==
    /\ activeTab = "credits"
    /\ dashboardView = DashboardRender("credits")

(* A click on a tab trigger.                                               *)
selectTab ==
    \E t \in DashboardTabs :
        /\ activeTab' = t
        /\ dashboardView' = DashboardRender(t)
        /\ UNCHANGED notDashboard

(* A click on a card's Retire button, which has no onClick.                *)
clickRetire ==
    /\ \E i \in 1..Len(dashboardView.cards) :
           "Retire" \in dashboardView.cards[i].buttons
    /\ UNCHANGED dashVars
    /\ UNCHANGED notDashboard

(* A click on a card's Certificate button, which has no onClick.           *)
clickCertificate ==
    /\ \E i \in 1..Len(dashboardView.cards) :
           "Certificate" \in dashboardView.cards[i].buttons
    /\ UNCHANGED dashVars
    /\ UNCHANGED notDashboard

(* The navigation bar with the Dashboard page below it.                    *)
ShellNext ==
    \/ toggleMenu
    \/ mobileLinkClick
    \/ desktopLinkClick
    \/ logoClick
    \/ routeChange
    \/ resize
    \/ selectTab
    \/ clickRetire
    \/ clickCertificate

---------------------------------------------------------------------------
Init ==
    /\ cookingFuel = ""
    /\ fuelAmount = ""
    /\ generatorHours = ""
    /\ wasteAmount = ""
    /\ view = Render("", "", "", "")

(* <Select value={cookingFuel} onValueChange={setCookingFuel}>             *)
setCookingFuel ==
    \E v \in FuelOptions :
        /\ cookingFuel' = v
        /\ UNCHANGED <<fuelAmount, generatorHours, wasteAmount>>
        /\ view' = Render(v, fuelAmount, generatorHours, wasteAmount)
        /\ UNCHANGED notTracker

(* A handler that also clears the generator hours.                         *)
setFuelAmountClearsHours ==
    \E v \in InputValues :
        /\ fuelAmount' = v
        /\ generatorHours' = ""
        /\ UNCHANGED <<cookingFuel, wasteAmount>>
        /\ view' = Render(cookingFuel, v, "", wasteAmount)
        /\ UNCHANGED notTracker

(* onChange={(e) => setFuelAmount(e.target.value)}                         *)
setFuelAmount ==
    \E v \in InputValues :
        /\ fuelAmount' = v
        /\ UNCHANGED <<cookingFuel, generatorHours, wasteAmount>>
        /\ view' = Render(cookingFuel, v, generatorHours, wasteAmount)
        /\ UNCHANGED notTracker

(* A handler after which the page still shows the render of the old value. *)
setGeneratorHoursStale ==
    \E v \in InputValues :
        /\ generatorHours' = v
        /\ UNCHANGED <<cookingFuel, fuelAmount, wasteAmount>>
        /\ view' = Render(cookingFuel, fuelAmount, generatorHours, wasteAmount)
        /\ UNCHANGED notTracker

(* onChange={(e) => setGeneratorHours(e.target.value)}                     *)
setGeneratorHours ==
    \E v \in InputValues :
        /\ generatorHours' = v
        /\ UNCHANGED <<cookingFuel, fuelAmount, wasteAmount>>
        /\ view' = Render(cookingFuel, fuelAmount, v, wasteAmount)
        /\ UNCHANGED notTracker

(* onChange={(e) => setWasteAmount(e.target.value)}                        *)
setWasteAmount ==
    \E v \in InputValues :
        /\ wasteAmount' = v
        /\ UNCHANGED <<cookingFuel, fuelAmount, generatorHours>>
        /\ view' = Render(cookingFuel, fuelAmount, generatorHours, v)
        /\ UNCHANGED notTracker

Next ==
    \/ setCookingFuel
    \/ setFuelAmount
    \/ setGeneratorHours
    \/ setWasteAmount

(* The application as it loads: every page in its initial state.           *)
AppInit ==
    /\ Init
    /\ MarketInit
    /\ CallersInit
    /\ SetupInit
    /\ BreakdownInit
    /\ NavInit
    /\ DashboardInit

appVars == <<vars, marketVars, callerVars, setupVars, breakdownVars, navVars,
             dashVars>>

Spec == AppInit /\ [][Next]_appVars

SpecMarket == AppInit /\ [][MarketNext]_appVars

SpecCallers == AppInit /\ [][CallersNext]_appVars

SpecBreakdown == AppInit /\ [][BreakdownNext]_appVars

SpecShell == AppInit /\ [][ShellNext]_appVars

SpecSetup == AppInit /\ [][SetupNext]_appVars

---------------------------------------------------------------------------
(* Vocabulary of the properties.                                           *)

(* HTMLInputElement.valueAsNumber of a non-empty input value.              *)
valueAsNumber(s) ==
    CHOOSE n \in (0 - MaxNegative)..MaxQuantity : ToString(n) = s

(* The quantity a field supplies: an empty field supplies none.            *)
Quantity(s) == IF s = "" THEN 0 ELSE valueAsNumber(s)

IsNegative(s) == s # "" /\ valueAsNumber(s) < 0

AnyNegativeQuantity ==
    IsNegative(fuelAmount) \/ IsNegative(generatorHours) \/ IsNegative(wasteAmount)

(* The page shows a footprint: a total, subtotals or a projection.         *)
FootprintShown ==
    \/ "totalEmissions" \in DOMAIN view
    \/ "monthlyEmissions" \in DOMAIN view
    \/ "tonsPerYear" \in DOMAIN view

(* The mass of CO2 one credit stands for in the credit recommendation, and *)
(* the price the cost estimate multiplies by.                              *)
kgPerCredit == 2000

creditPriceUSD == 15

(* The form has been edited and the page rendered from the edited fields.  *)
FormEdited ==
    /\ cookingFuel # "" /\ fuelAmount # ""
    /\ generatorHours # "" /\ wasteAmount # ""
    /\ view.form = [cookingFuel |-> cookingFuel, fuelAmount |-> fuelAmount,
                    generatorHours |-> generatorHours, wasteAmount |-> wasteAmount]

---------------------------------------------------------------------------
(* C1: after any sequence of form edits, the total the page shows equals   *)
(* the sum of the four category subtotals it shows: cooking + electricity  *)
(* + transport + waste.                                                    *)
C1_TotalIsSumOfSubtotals ==
    view.totalEmissions =
        view.monthlyEmissions.cooking + view.monthlyEmissions.electricity
        + view.monthlyEmissions.transport + view.monthlyEmissions.waste

C1_Witness ==
    /\ FormEdited
    /\ view.totalEmissions > 0
    /\ \A c \in DOMAIN view.monthlyEmissions : view.monthlyEmissions[c] > 0

(* C2: the footprint is computed from the entered values, so that changing *)
(* the quantity in a form field changes the corresponding subtotal and the *)
(* total: a different fuel amount (same fuel selected), a different number *)
(* of generator hours or a different waste mass gives a different cooking, *)
(* electricity or waste subtotal, and a different total.                   *)
C2_FieldChangeChangesSubtotal ==
    [][ /\ ( /\ cookingFuel \in FuelOptions /\ cookingFuel' = cookingFuel
             /\ Quantity(fuelAmount) >= 0 /\ Quantity(fuelAmount') >= 0
             /\ Quantity(fuelAmount') # Quantity(fuelAmount) )
           => ( /\ view'.monthlyEmissions.cooking # view.monthlyEmissions.cooking
                /\ view'.totalEmissions # view.totalEmissions )
        /\ ( /\ Quantity(generatorHours) >= 0 /\ Quantity(generatorHours') >= 0
             /\ Quantity(generatorHours') # Quantity(generatorHours) )
           => ( /\ view'.monthlyEmissions.electricity
                       # view.monthlyEmissions.electricity
                /\ view'.totalEmissions # view.totalEmissions )
        /\ ( /\ Quantity(wasteAmount) >= 0 /\ Quantity(wasteAmount') >= 0
             /\ Quantity(wasteAmount') # Quantity(wasteAmount) )
           => ( /\ view'.monthlyEmissions.waste # view.monthlyEmissions.waste
                /\ view'.totalEmissions # view.totalEmissions )
      ]_vars

(* C3 as stated: the tonnage reported is exactly total * 12 / 1000, with   *)
(* no rounding (the reported figure is in tenths of a ton).                *)
C3_TonnageUnrounded ==
    view.tonsPerYear * 1000 = view.totalEmissions * 12 * 10

(* C3, amended: the yearly projection is total * 12 kilograms, and the     *)
(* tonnage reported is that value divided by 1000 and rounded to the       *)
(* nearest tenth of a ton (a tie rounds up).                               *)
C3_TonnageRoundedToTenth ==
    /\ 100 * view.tonsPerYear - 50 <= view.totalEmissions * 12
    /\ view.totalEmissions * 12 < 100 * view.tonsPerYear + 50

C3_Witness ==
    /\ FormEdited
    /\ view.totalEmissions = 120
    /\ view.tonsPerYear = 14

(* C4 as stated: the number of credits recommended is the yearly mass      *)
(* divided by the mass per credit, fractional and not rounded (the         *)
(* recommended figure is in tenths of a credit).                           *)
C4_CreditsUnrounded ==
    view.offsetCredits * kgPerCredit = view.totalEmissions * 12 * 10

(* C4, amended: the number of credits recommended is the yearly mass       *)
(* (total * 12 kg) divided by 2000 kg per credit and rounded to the        *)
(* nearest tenth of a credit; with the page's monthly total of 120 kg it   *)
(* is 0.7 credits.                                                         *)
C4_CreditsRoundedToTenth ==
    /\ 2 * kgPerCredit * view.offsetCredits - 10 * kgPerCredit
          <= 2 * 10 * view.totalEmissions * 12
    /\ 2 * 10 * view.totalEmissions * 12
          < 2 * kgPerCredit * view.offsetCredits + 10 * kgPerCredit
    /\ (view.totalEmissions = 120 => view.offsetCredits = 7)

C4_Witness ==
    /\ FormEdited
    /\ view.totalEmissions = 120
    /\ view.offsetCredits = 7

(* C5: the estimated offset cost is creditsNeeded times creditPriceUSD,    *)
(* where creditsNeeded is the credit count for the same tonnage: the       *)
(* tonnage the cost is quoted for (0.4 of the yearly mass), at the mass    *)
(* per credit of the credit recommendation; compared in whole dollars, as  *)
(* the page shows the cost.                                                *)
C5_CostIsCreditsTimesPrice ==
    view.estimatedCost =
        toFixed(view.totalEmissions * 12 * 4 * creditPriceUSD,
                10 * kgPerCredit, 0)

(* C6: with 5 kg of charcoal, 3 generator hours, no transport and 2 kg of  *)
(* waste entered, the footprint is cooking 45, electricity 32, transport   *)
(* 0, waste 15, total 92 kg per month, and the projection 1104 kg = 1.104  *)
(* t (1.1 in the tenths the page reports).                                 *)
C6_Example ==
    ( /\ view.form.cookingFuel = "charcoal" /\ view.form.fuelAmount = "5"
      /\ view.form.generatorHours = "3" /\ view.form.wasteAmount = "2" )
    => ( /\ view.monthlyEmissions =
               [cooking |-> 45, electricity |-> 32, transport |-> 0, waste |-> 15]
         /\ view.totalEmissions = 92
         /\ view.totalEmissions * 12 = 1104
         /\ view.tonsPerYear = 11 )

(* C7: a category for which no quantity is supplied has subtotal 0:        *)
(* transport (the form has no transport field) always, cooking,            *)
(* electricity and waste when their field is empty; with every field empty *)
(* the total is 0.                                                         *)
C7_AbsentCategoryIsZero ==
    /\ view.monthlyEmissions.transport = 0
    /\ (view.form.fuelAmount = "" => view.monthlyEmissions.cooking = 0)
    /\ (view.form.generatorHours = "" => view.monthlyEmissions.electricity = 0)
    /\ (view.form.wasteAmount = "" => view.monthlyEmissions.waste = 0)
    /\ ( ( /\ view.form.fuelAmount = "" /\ view.form.generatorHours = ""
           /\ view.form.wasteAmount = "" )
         => view.totalEmissions = 0 )

(* C8: when the quantity entered in any field is negative, no footprint,   *)
(* total or projection is produced.                                        *)
C8_NegativeQuantityRejected ==
    AnyNegativeQuantity => ~FootprintShown

(* C9: when a cooking quantity is entered and the fuel type is not one of  *)
(* the five known fuels (as with the initial empty selection), no          *)
(* footprint is produced.                                                  *)
C9_UnknownFuelRejected ==
    (fuelAmount # "" /\ cookingFuel \notin FuelOptions) => ~FootprintShown

(* C13: after any sequence of changes to the form fields, what the page    *)
(* shows is what a fresh run of the component body on the current field    *)
(* values yields, and a step that edits no field leaves what is shown      *)
(* unchanged.                                                              *)
C13_ShownIsFreshComputation ==
    /\ [](view = Render(cookingFuel, fuelAmount, generatorHours, wasteAmount))
    /\ [][ UNCHANGED <<cookingFuel, fuelAmount, generatorHours, wasteAmount>>
           => view' = view ]_vars

C13_Witness ==
    /\ FormEdited
    /\ view.form.generatorHours = "3"
    /\ view.totalEmissions = 120

(* C14: a step changes at most one of the four form fields: the handler of *)
(* a field leaves the other three as they were, and the render that        *)
(* follows it changes none.                                                *)
C14_AtMostOneFieldChanges ==
    [][ /\ cookingFuel' # cookingFuel
           => UNCHANGED <<fuelAmount, generatorHours, wasteAmount>>
        /\ fuelAmount' # fuelAmount
           => UNCHANGED <<cookingFuel, generatorHours, wasteAmount>>
        /\ generatorHours' # generatorHours
           => UNCHANGED <<cookingFuel, fuelAmount, wasteAmount>>
        /\ wasteAmount' # wasteAmount
           => UNCHANGED <<cookingFuel, fuelAmount, generatorHours>>
      ]_vars

C14_Witness ==
    /\ cookingFuel = "lpg" /\ generatorHours = "3" /\ wasteAmount = "2"
    /\ fuelAmount = "5"
    /\ view.form.fuelAmount = "5" /\ view.form.generatorHours = "3"

---------------------------------------------------------------------------
(* Vocabulary of the Marketplace properties.                               *)

(* sub occurs in str, letters compared without regard to case.             *)
ContainsIgnoringCase(str, sub) ==
    \E k \in 0..(Len(str) - Len(sub)) :
        \A j \in 1..Len(sub) : lowerCaseChar(str[k + j]) = lowerCaseChar(sub[j])

Catalogue == {carbonCredits[i] : i \in 1..Len(carbonCredits)}

CatalogueIndex(credit) ==
    CHOOSE i \in 1..Len(carbonCredits) : carbonCredits[i] = credit

CardsShown == {marketView.cards[i] : i \in 1..Len(marketView.cards)}

(* The sum over a set of listings of the credits available ("credits") or  *)
(* of price times credits available ("value").                             *)
RECURSIVE SumOverListings(_, _)
SumOverListings(listings, what) ==
    IF listings = {} THEN 0
    ELSE LET c == CHOOSE x \in listings : TRUE
         IN  (IF what = "credits" THEN c.availableCredits
              ELSE c.price * c.availableCredits)
             + SumOverListings(listings \ {c}, what)

(* C16: with filter 'all' every catalogue listing is shown; with any other *)
(* filter the listings shown are exactly those whose type contains the     *)
(* filter string, compared case-insensitively; the listings shown are in   *)
(* catalogue order, without repetition, and all of the catalogue.          *)
C16_FilterShowsMatchingListings ==
    /\ marketView.tab = selectedFilter
    /\ selectedFilter = filterAll => marketView.cards = carbonCredits
    /\ selectedFilter # filterAll
       => CardsShown =
              {c \in Catalogue : ContainsIgnoringCase(c.type, selectedFilter)}
    /\ CardsShown \subseteq Catalogue
    /\ \A i, j \in 1..Len(marketView.cards) :
           i < j => CatalogueIndex(marketView.cards[i])
                        < CatalogueIndex(marketView.cards[j])

C16_Witness ==
    /\ selectedFilter = filterAgroforestry
    /\ marketView.cards = <<carbonCredits[1], carbonCredits[4]>>

(* C17: after any sequence of filter selections, 'Active Projects' is the  *)
(* number of listing cards shown, 'Credits Available' the sum of           *)
(* availableCredits over them, and 'Total Value' the sum of price times    *)
(* availableCredits over them.                                             *)
C17_StatisticsMatchCards ==
    /\ marketView.activeProjects = Cardinality(CardsShown)
    /\ marketView.activeProjects = Len(marketView.cards)
    /\ marketView.creditsAvailable = SumOverListings(CardsShown, "credits")
    /\ marketView.totalValue = SumOverListings(CardsShown, "value")

C17_Witness ==
    /\ selectedFilter = filterAgroforestry
    /\ marketView.activeProjects = 2
    /\ marketView.creditsAvailable = 1230
    /\ marketView.totalValue = 1619100

(* C18: the listings shown are restricted to the projects whose name or    *)
(* location matches the text in the search box.                            *)
C18_SearchRestrictsListings ==
    \A c \in CardsShown :
        \/ ContainsIgnoringCase(c.name, searchText)
        \/ ContainsIgnoringCase(c.location, searchText)

---------------------------------------------------------------------------
(* C15: when several invocations of the footprint computation run with     *)
(* their steps interleaved in any order, each ends with the total and the  *)
(* yearly projection it yields running alone, and the monthlyEmissions     *)
(* data each one reads is the data as written in the source.               *)
C15_InterleavedCallersAgree ==
    \A c \in Callers :
        /\ callerPc[c] > 0 => callerObject[c] = monthlyEmissions
        /\ callerPc[c] = Len(categoryOrder) + 2
           => callerResult[c] = [totalEmissions |-> totalEmissions,
                                 yearlyEmissions |-> yearlyEmissions]

(* One invocation has returned while two others are part-way through       *)
(* their reduce.                                                           *)
C15_Witness ==
    /\ callerPc[1] = Len(categoryOrder) + 2
    /\ callerResult[1].totalEmissions = 120
    /\ callerPc[2] = 3 /\ callerAcc[2] = 77
    /\ callerPc[3] = 2 /\ callerAcc[3] = 45

---------------------------------------------------------------------------
(* Vocabulary of the setup-script properties.                              *)

(* The place of the .env command in the script that is running.            *)
EnvCommandIndex ==
    CHOOSE i \in 1..Len(Commands(script)) : Commands(script)[i].kind = "createEnv"

(* The .env command of the running script has been run.                    *)
EnvCommandRan ==
    /\ script \in Scripts
    /\ pc > EnvCommandIndex \/ EnvCommandIndex \in failed

(* The order in which main calls the steps.                                *)
ProjectStepOrder ==
    << "check_prerequisites", "setup_project_root", "setup_backend",
       "setup_frontend", "create_dev_scripts", "show_final_instructions" >>

(* Every command of the step has run and none of them failed.              *)
StepSucceeded(step) ==
    \A i \in 1..Len(ProjectScript) :
        ProjectScript[i].step = step => (i < pc /\ i \notin failed)

(* C19: once the step that provides backend/.env has run, the file exists  *)
(* (it was there, or the step created it from the template), and the step  *)
(* did not fail, so that the setup goes on to the commands after it.       *)
C19_EnvFileCreatedAndSetupContinues ==
    EnvCommandRan => (files.env /\ EnvCommandIndex \notin failed)

---------------------------------------------------------------------------
(* C21: the project setup script begins no installation step (no step      *)
(* after check_prerequisites) unless Node.js of major version 18 or more,  *)
(* Python 3.9 or more, pip3 and git are installed.                         *)
C21_NoInstallWithoutPrerequisites ==
    ( /\ script = "project"
      /\ \E i \in 1..Len(stepsStarted) : stepsStarted[i] # "check_prerequisites" )
    => ( /\ tools.node /\ tools.nodeMajor >= RequiredNodeMajor
         /\ tools.python3 /\ tools.pythonMinor >= DocumentedPythonMinor
         /\ tools.pip3
         /\ tools.git )

---------------------------------------------------------------------------
(* The three type filters of the Marketplace.                              *)
TypeFilters == {filterAgroforestry, filterReforestation, filterCoastal}

ListingsUnder(filter) ==
    {filteredCredits(filter)[i] : i \in 1..Len(filteredCredits(filter))}

(* C25: the filters agroforestry, reforestation and coastal partition the  *)
(* catalogue: every listing is shown under exactly one of them, the union  *)
(* of the three lists is the list shown under 'all', and the cards on the  *)
(* page are the list of the filter selected.                               *)
C25_TypeFiltersPartitionCatalogue ==
    /\ \A c \in Catalogue :
           Cardinality({f \in TypeFilters : c \in ListingsUnder(f)}) = 1
    /\ UNION {ListingsUnder(f) : f \in TypeFilters} = ListingsUnder(filterAll)
    /\ CardsShown = ListingsUnder(selectedFilter)
    /\ (selectedFilter \in TypeFilters
        => \A f \in TypeFilters \ {selectedFilter} :
               CardsShown \cap ListingsUnder(f) = {})

C25_Witness ==
    /\ selectedFilter = filterCoastal
    /\ marketView.cards = <<carbonCredits[2]>>

(* The sum of the ratings (in tenths) of a set of listings.                *)
RECURSIVE SumOfRatings(_)
SumOfRatings(listings) ==
    IF listings = {} THEN 0
    ELSE LET c == CHOOSE x \in listings : TRUE
         IN  c.rating + SumOfRatings(listings \ {c})

(* C26: after any sequence of filter selections, the 'Avg. Rating'         *)
(* statistic is the average rating of the listings shown, to one decimal.  *)
C26_AvgRatingOfShown ==
    CardsShown # {}
    => marketView.avgRating =
           toFixed(SumOfRatings(CardsShown), 10 * Cardinality(CardsShown), 1)

---------------------------------------------------------------------------
(* The Retire buttons on the page, by credit id, and the status a credit   *)
(* is shown with.                                                          *)
RetireOfferedFor ==
    {dashboardView.cards[i].id : i \in
        {j \in 1..Len(dashboardView.cards) :
            "Retire" \in dashboardView.cards[j].buttons}}

StatusShown(id) ==
    IF \E i \in 1..Len(dashboardView.cards) : dashboardView.cards[i].id = id
    THEN LET i == CHOOSE j \in 1..Len(dashboardView.cards) :
                      dashboardView.cards[j].id = id
         IN  dashboardView.cards[i].status
    ELSE "not shown"

OwnedIds == {ownedCredits[i].id : i \in 1..Len(ownedCredits)}

(* C22: on the Dashboard, Retire is offered for exactly the owned credits  *)
(* whose status is Active (a Retired credit never offers it), and no user  *)
(* action turns a credit shown as Retired into one shown as Active.        *)
C22_RetireOnlyForActive ==
    /\ [](/\ activeTab = "credits"
             => RetireOfferedFor =
                    {id \in OwnedIds : StatusShown(id) = "Active"}
          /\ \A id \in OwnedIds :
                 StatusShown(id) = "Retired" => id \notin RetireOfferedFor
          /\ RetireOfferedFor \subseteq
                 {ownedCredits[i].id : i \in
                     {j \in 1..Len(ownedCredits) :
                         ownedCredits[j].status = "Active"}})
    /\ [][\A id \in OwnedIds :
              StatusShown(id) = "Retired" => StatusShown(id)' # "Active"]_appVars

C22_Witness ==
    /\ activeTab = "credits"
    /\ StatusShown(4) = "Retired"
    /\ RetireOfferedFor = {1, 2, 3}

---------------------------------------------------------------------------
(* The items a list of the navigation bar highlights.                      *)
HighlightedDesktop ==
    {i \in 1..Len(navView.desktop) : navView.desktop[i].variant = "default"}

HighlightedMobile ==
    {i \in 1..Len(navView.mobile) : navView.mobile[i].active}

(* C23: in the desktop list and in the open mobile menu at most one of the *)
(* six items is highlighted, and exactly one is iff the current pathname   *)
(* equals one of the six item paths.                                       *)
C23_AtMostOneItemHighlighted ==
    /\ Len(navView.desktop) = 6
    /\ isOpen => Len(navView.mobile) = 6
    /\ \A H \in {HighlightedDesktop}
                   \cup (IF isOpen THEN {HighlightedMobile} ELSE {}) :
           /\ Cardinality(H) <= 1
           /\ Cardinality(H) = 1 <=> location.pathname \in ItemPaths

C23_Witness ==
    /\ location.pathname = "/marketplace"
    /\ isOpen
    /\ HighlightedDesktop = {2}
    /\ HighlightedMobile = {2}

(* C24: the mobile menu starts closed; a click on the menu button flips    *)
(* it; a click on an item of the open mobile menu leaves it closed; every  *)
(* other action leaves it as it was.                                       *)
C24_MenuFollowsButtonAndItems ==
    /\ isOpen = FALSE
    /\ [][/\ toggleMenu => isOpen' = ~isOpen
          /\ mobileLinkClick => isOpen' = FALSE
          /\ (desktopLinkClick \/ logoClick \/ routeChange \/ resize
                \/ selectTab \/ clickRetire \/ clickCertificate)
               /\ ~toggleMenu /\ ~mobileLinkClick
             => isOpen' = isOpen]_appVars

C24_Witness ==
    /\ viewport = "mobile"
    /\ isOpen
    /\ navView.menuIcon = "X"
    /\ location.pathname = "/tracker"

---------------------------------------------------------------------------
(* C27: one credit stands for the same mass K = kgPerCredit wherever       *)
(* credits are converted: each holding's offset on the Dashboard is its    *)
(* credits times K, the Dashboard's total offset is the total credits      *)
(* times K, and the EmissionTracker recommends the yearly kilograms        *)
(* divided by K.                                                           *)
C27_OneCreditOneMass ==
    /\ \A i \in 1..Len(ownedCredits) :
           ownedCredits[i].offset * 10 = ownedCredits[i].credits * kgPerCredit
    /\ \A i \in 1..Len(dashboardView.cards) :
           dashboardView.cards[i].offsetTons =
               toFixed(dashboardView.cards[i].credits * kgPerCredit,
                       10 * 1000, 1)
    /\ userStats.totalOffset * 10 = userStats.totalCredits * kgPerCredit
    /\ dashboardView.totalOffsetTons =
           toFixed(dashboardView.totalCredits * kgPerCredit, 10 * 1000, 1)
    /\ view.offsetCredits = toFixed(view.totalEmissions * 12, kgPerCredit, 1)

C27_Witness ==
    /\ activeTab = "credits"
    /\ dashboardView.cards[2].credits = 83
    /\ dashboardView.cards[2].offsetTons = 166
    /\ dashboardView.totalOffsetTons = 950
    /\ view.offsetCredits = 7

---------------------------------------------------------------------------
(* A progress value that is a number between 0 and 100.                    *)
ProgressInRange(p) ==
    /\ p.kind = "number"
    /\ p.den > 0
    /\ 0 <= p.num
    /\ p.num <= 100 * p.den

C29_ProgressValuesInRange ==
    /\ ProgressInRange(view.monthlyGoal)
    /\ ProgressInRange(view.annualTarget.progress)
    /\ \A i \in 1..Len(view.breakdown) :
           ProgressInRange(view.breakdown[i].progress)

(* The monthly savings the recommendations on the page name, summed.       *)
SavingsPerMonth ==
    reduceSum([i \in 1..Len(view.recommendations) |->
                  view.recommendations[i].savings], 0)

(* C30: the 'remaining' yearly emissions shown after the recommendations   *)
(* are the yearly emissions less twelve times the summed monthly savings   *)
(* of the four recommendations (in tenths of a ton, as shown).             *)
C30_RemainingIsYearlyLessSavings ==
    view.remainingTons =
        toFixed(view.totalEmissions * 12 - 12 * SavingsPerMonth, 1000, 1)

====
